---- MODULE Spec2Model ----
(***************************************************************************)
(* Model of contentcuration/frontend/shared/utils/helpers.js:              *)
(*   animationThrottle, promiseChunk, insertBefore and generatePdf.        *)
(* JavaScript is single threaded: every action below is one task of the    *)
(* event loop (a call from the host, a display tick, the settling of an    *)
(* external promise) together with everything it runs synchronously.       *)
(***************************************************************************)
EXTENDS Integers, Sequences, FiniteSets, TLC

VARIABLES
  \* animationThrottle (helpers.js 296-332)
  animationFrameId,  \* closure variable; 0 stands for null
  lastCallback,      \* the args captured by the closure held in lastCallback; 0 is the initial () => {}
  rafQueue,          \* the browser's pending frame requests: <<[id, args]>>, args = those of the closure registered
  nextFrameId,       \* the handle the next requestAnimationFrame returns
  burst,             \* history: wrapper calls made, while no tick fires, since the last tick, flush() or cancel()
  unserved,          \* history: a wrapper call happened and no invocation of cb has started since
  ev,                \* history: what the last operation was and did
  \* promiseChunk (helpers.js 60-70)
  things,            \* argument
  chunkSize,         \* argument
  pcChunk,           \* "idle" before the call, "called" after it
  chunks,            \* chunk(things, chunkSize)
  chain,             \* chain[k]: the promise the k-th step of reduce returned
  cbState,           \* cbState[k]: "idle", "running", "fulfilled", "rejected" or "threw": callback(chunks[k])
  cbRet,             \* cbRet[k]: what callback(chunks[k]) resolved to, or failed with
  invokeLog,         \* history: the arguments of the calls of callback, in order
  \* insertBefore (helpers.js 13-19)
  heap,              \* the arrays that exist, by reference
  arrRef,            \* argument arr: a reference into heap
  idxArg,            \* argument idx
  itemArg,           \* argument item
  retRef,            \* the reference insertBefore returned; 0 before the call
  arrAtCall,         \* history: the contents of arr when insertBefore was called
  \* generatePdf (helpers.js 153-275)
  dom,               \* the subtree under htmlRef: dom[n] = [parent, capture, content], node 1 is htmlRef
  saveOpt,           \* the save option
  pcPdf,             \* "idle" before the call, "walked" once recurseNodes(htmlRef) has returned
  ops,               \* the promises array: ops[i] = [node, kind, ext, promise]
  docImages,         \* nodes whose image an asynchronous capture has added to doc
  docSync,           \* nodes drawn onto doc during the walk (text, raster images)
  joined,            \* the state of Promise.all(promises)
  saveCalls,         \* number of calls of doc.save
  saveState,         \* the promise doc.save returned: "none", "pending", "fulfilled" or "rejected"
  result             \* the promise generatePdf returned

tvars == <<animationFrameId, lastCallback, rafQueue, nextFrameId, burst, unserved, ev>>
cvars == <<things, chunkSize, pcChunk, chunks, chain, cbState, cbRet, invokeLog>>
ivars == <<heap, arrRef, idxArg, itemArg, retRef, arrAtCall>>
pvars == <<dom, saveOpt, pcPdf, ops, docImages, docSync, joined, saveCalls, saveState, result>>

vars == <<tvars, cvars, ivars, pvars>>

----------------------------------------------------------------------------
(* Bounds *)
MaxArg == 2     \* wrapper arguments are 1..MaxArg
MaxFrames == 3  \* requestAnimationFrame is called at most MaxFrames times
MaxBurst == 3   \* at most MaxBurst wrapper calls between two ticks/flushes/cancels

Args == 1..MaxArg
\* What cb does when it runs: 0 = returns; a \in Args = calls the wrapper with a.
CbChoice == 0..MaxArg

----------------------------------------------------------------------------
(* animationThrottle *)

\* The closure state as one record, with the log of this operation.
TState ==
  [id |-> animationFrameId, last |-> lastCallback, queue |-> rafQueue,
   next |-> nextFrameId, un |-> unserved, log |-> <<>>, calls |-> 0]

requestAnimationFrame(s, a) ==
  [s EXCEPT !.queue = Append(@, [id |-> s.next, args |-> a]),
            !.id = s.next, !.next = @ + 1]

cancelAnimationFrame(s, h) ==
  [s EXCEPT !.queue = SelectSeq(@, LAMBDA f : f.id # h)]

\* throttled(...args): lines 300-311.  The closure handed to
\* requestAnimationFrame is the one just stored in lastCallback.
throttled(s, a) ==
  LET s1 == [s EXCEPT !.last = a, !.un = TRUE, !.calls = @ + 1]
  IN  IF s1.id # 0 THEN s1 ELSE requestAnimationFrame(s1, s1.last)

\* The closure of lines 301-304 that captured args a, run while cb behaves
\* as re; a = 0 is the initial () => {} of line 298.
closure(s, a, re) ==
  IF a = 0 THEN s
  ELSE LET s1 == [s EXCEPT !.log = Append(@, a), !.un = FALSE]
           s2 == IF re # 0 THEN throttled(s1, re) ELSE s1
       IN  [s2 EXCEPT !.id = 0]

\* throttled.cancel: lines 324-329.
cancel(s) ==
  IF s.id # 0 THEN [cancelAnimationFrame(s, s.id) EXCEPT !.id = 0] ELSE s

\* throttled.flush: lines 316-319.
flush(s, re) ==
  LET s1 == cancel(s) IN closure(s1, s1.last, re)

\* A display tick runs the frame callbacks that were pending when it began,
\* in the order they were requested; requests made meanwhile wait for the
\* next tick.
RECURSIVE runFrames(_, _, _, _)
runFrames(s, frames, re, i) ==
  IF i > Len(frames) THEN s
  ELSE runFrames(closure(s, frames[i].args, re[i]), frames, re, i + 1)

tick(s, re) ==
  runFrames([s EXCEPT !.queue = <<>>], s.queue, re, 1)

Pending(q) == {q[i].id : i \in DOMAIN q}

Commit(s, op, b) ==
  /\ animationFrameId' = s.id
  /\ lastCallback' = s.last
  /\ rafQueue' = s.queue
  /\ nextFrameId' = s.next
  /\ unserved' = s.un
  /\ burst' = b
  /\ ev' = [op |-> op, invoked |-> s.log, burst |-> burst,
            latest |-> lastCallback, had |-> Pending(rafQueue)]
  /\ UNCHANGED <<cvars, ivars, pvars>>

ThrottleInit ==
  /\ animationFrameId = 0
  /\ lastCallback = 0
  /\ rafQueue = <<>>
  /\ nextFrameId = 1
  /\ burst = 0
  /\ unserved = FALSE
  /\ ev = [op |-> "init", invoked |-> <<>>, burst |-> 0, latest |-> 0, had |-> {}]

Call ==
  \E a \in Args :
    LET s == throttled(TState, a) IN
      /\ burst < MaxBurst
      /\ s.next <= MaxFrames + 1
      /\ Commit(s, "call", burst + 1)

Tick ==
  \E re \in [DOMAIN rafQueue -> CbChoice] :
    LET s == tick(TState, re) IN
      /\ s.next <= MaxFrames + 1
      /\ Commit(s, "tick", 0)

Flush ==
  \E re \in CbChoice :
    LET s == flush(TState, re) IN
      /\ s.next <= MaxFrames + 1
      /\ Commit(s, "flush", s.calls)

Cancel ==
  Commit(cancel(TState), "cancel", 0)

ThrottleNext == Call \/ Tick \/ Flush \/ Cancel

\* The display keeps refreshing and cancel() is never called.
LiveThrottleNext == Call \/ Tick \/ Flush

----------------------------------------------------------------------------
(* promiseChunk *)

MaxThings == 3  \* things holds at most MaxThings items
MaxChunk == 2   \* chunkSize is 0..MaxChunk

Items == {"a", "b"}
Errors == {"e1", "e2"}

SeqsUpTo(S, n) == UNION {[1..m -> S] : m \in 0..n}

Min(a, b) == IF a < b THEN a ELSE b

PendingP == [st |-> "pending", val |-> <<>>]
FulfilledP(v) == [st |-> "fulfilled", val |-> v]
RejectedP(e) == [st |-> "rejected", val |-> e]

\* lodash baseSlice(array, start, end), end clamped to the length.
baseSlice(array, start, end) ==
  SubSeq(array, start + 1, Min(end, Len(array)))

\* lodash chunk(array, size): [] for an empty array or size < 1, else the
\* loop  while (index < length) result[resIndex++] = baseSlice(array, index, index += size).
RECURSIVE chunkFrom(_, _, _)
chunkFrom(array, size, index) ==
  IF index >= Len(array) THEN <<>>
  ELSE <<baseSlice(array, index, index + size)>> \o chunkFrom(array, size, index + size)

chunk(array, size) ==
  IF Len(array) = 0 \/ size < 1 THEN <<>> ELSE chunkFrom(array, size, 0)

\* The promise a step of the chain is attached to: Promise.resolve([]) for
\* the first chunk (line 69), the previous step's promise otherwise.
Prev(k) == IF k = 1 THEN FulfilledP(<<>>) ELSE chain[k - 1]

\* promise.then(onFulfilled) of line 66: onFulfilled runs once promise is fulfilled.
thenReadyEager(prev) == TRUE
thenReady(prev) == prev.st = "fulfilled"

\* promise.then(onFulfilled) of line 66 has no onRejected: the promise it
\* returns is rejected with the reason of the promise it was called on.
thenRejectedSwallow(prev) == FulfilledP(<<>>)
thenRejected(prev) == RejectedP(prev.val)

\* results.concat(chunkResults) of line 67.
concatResultsPrepend(results, chunkResults) == chunkResults \o results
concatResults(results, chunkResults) == results \o chunkResults

\* The promise promiseChunk returned (lines 62 and 65-69).
Returned ==
  IF chain = <<>> THEN FulfilledP(<<>>) ELSE chain[Len(chain)]

ChunkInit ==
  /\ things \in SeqsUpTo(Items, MaxThings)
  /\ chunkSize \in 0..MaxChunk
  /\ pcChunk = "idle"
  /\ chunks = <<>>
  /\ chain = <<>>
  /\ cbState = <<>>
  /\ cbRet = <<>>
  /\ invokeLog = <<>>

\* The call itself: lines 60-70 up to the first await of the chain.
PromiseChunk ==
  /\ pcChunk = "idle"
  /\ pcChunk' = "called"
  /\ chunks' = IF Len(things) = 0 THEN <<>> ELSE chunk(things, chunkSize)
  /\ chain' = [k \in DOMAIN chunks' |-> PendingP]
  /\ cbState' = [k \in DOMAIN chunks' |-> "idle"]
  /\ cbRet' = [k \in DOMAIN chunks' |-> <<>>]
  /\ UNCHANGED <<things, chunkSize, invokeLog>>
  /\ UNCHANGED <<tvars, ivars, pvars>>

\* The handler of line 66-68 for chunk k runs and calls callback(thingChunk),
\* which returns a promise that is still pending.
ThenCallback ==
  \E k \in DOMAIN chain :
    /\ pcChunk = "called"
    /\ chain[k].st = "pending"
    /\ cbState[k] = "idle"
    /\ thenReady(Prev(k))
    /\ cbState' = [cbState EXCEPT ![k] = "running"]
    /\ invokeLog' = Append(invokeLog, chunks[k])
    /\ UNCHANGED <<things, chunkSize, pcChunk, chunks, chain, cbRet>>
    /\ UNCHANGED <<tvars, ivars, pvars>>

\* The same handler, callback(thingChunk) throwing instead of returning.
ThenCallbackThrows ==
  \E k \in DOMAIN chain, e \in Errors :
    /\ pcChunk = "called"
    /\ chain[k].st = "pending"
    /\ cbState[k] = "idle"
    /\ thenReady(Prev(k))
    /\ cbState' = [cbState EXCEPT ![k] = "threw"]
    /\ cbRet' = [cbRet EXCEPT ![k] = e]
    /\ chain' = [chain EXCEPT ![k] = RejectedP(e)]
    /\ invokeLog' = Append(invokeLog, chunks[k])
    /\ UNCHANGED <<things, chunkSize, pcChunk, chunks>>
    /\ UNCHANGED <<tvars, ivars, pvars>>

\* callback's promise for chunk k is fulfilled with r; the inner handler of
\* line 67 concatenates and the step's promise is fulfilled with that.
CallbackFulfils ==
  \E k \in DOMAIN chain :
    \E r \in {chunks[k], <<>>, <<"r">>} :
      /\ cbState[k] = "running"
      /\ cbState' = [cbState EXCEPT ![k] = "fulfilled"]
      /\ cbRet' = [cbRet EXCEPT ![k] = r]
      /\ chain' = [chain EXCEPT ![k] = FulfilledP(concatResults(Prev(k).val, r))]
      /\ UNCHANGED <<things, chunkSize, pcChunk, chunks, invokeLog>>
      /\ UNCHANGED <<tvars, ivars, pvars>>

\* callback's promise for chunk k is rejected with e.
CallbackRejects ==
  \E k \in DOMAIN chain, e \in Errors :
    /\ cbState[k] = "running"
    /\ cbState' = [cbState EXCEPT ![k] = "rejected"]
    /\ cbRet' = [cbRet EXCEPT ![k] = e]
    /\ chain' = [chain EXCEPT ![k] = RejectedP(e)]
    /\ UNCHANGED <<things, chunkSize, pcChunk, chunks, invokeLog>>
    /\ UNCHANGED <<tvars, ivars, pvars>>

\* The rejection of a step's promise passes to the next step's promise.
ThenRejected ==
  \E k \in DOMAIN chain :
    /\ chain[k].st = "pending"
    /\ cbState[k] = "idle"
    /\ Prev(k).st = "rejected"
    /\ chain' = [chain EXCEPT ![k] = thenRejected(Prev(k))]
    /\ UNCHANGED <<things, chunkSize, pcChunk, chunks, cbState, cbRet, invokeLog>>
    /\ UNCHANGED <<tvars, ivars, pvars>>

ChunkNext ==
  \/ PromiseChunk
  \/ ThenCallback
  \/ ThenCallbackThrows
  \/ CallbackFulfils
  \/ CallbackRejects
  \/ ThenRejected

----------------------------------------------------------------------------
(* insertBefore *)

MaxLen == 2  \* arr holds at most MaxLen elements

\* JavaScript values by kind: a number, a string, null, undefined, NaN.
JsValues == {"num", "str", "null", "undefined", "NaN"}
\* Those JSON can represent.
JsonValues == {"num", "str", "null"}

Max(a, b) == IF a > b THEN a ELSE b

\* JSON.stringify of an array element: undefined and NaN are written as null.
JSONstringify(v) == IF v \in {"undefined", "NaN"} THEN "null" ELSE v
\* JSON.parse of the text of an element.
JSONparse(text) == text

\* const newArr = JSON.parse(JSON.stringify(arr)), line 14: a new array.
cloneArrayAlias(h, r) == [heap |-> h, ref |-> r]
cloneArray(h, r) ==
  LET new == Cardinality(DOMAIN h) + 1
  IN  [heap |-> h @@ (new :> [i \in DOMAIN h[r] |-> JSONparse(JSONstringify(h[r][i]))]),
       ref |-> new]

\* Array.prototype.splice(start, 0, item) for start >= 0: start is clamped to the length.
splice(a, start, item) ==
  LET at == Min(start, Len(a))
  IN  SubSeq(a, 1, at) \o <<item>> \o SubSeq(a, at + 1, Len(a))

\* insertBefore(arr, idx, item), lines 13-19: the heap after it and the reference returned.
insertBefore(h, arr, idx, item) ==
  LET c == cloneArray(h, arr)
      insertAt == Max(0, idx)
  IN  [heap |-> [c.heap EXCEPT ![c.ref] = splice(@, insertAt, item)], ref |-> c.ref]

InsertInit ==
  /\ arrRef = 1
  /\ \E s \in SeqsUpTo(JsValues, MaxLen) : heap = (1 :> s) /\ arrAtCall = s
  /\ idxArg \in (0 - 1)..(MaxLen + 1)
  /\ itemArg \in JsValues
  /\ retRef = 0

InsertBefore ==
  /\ retRef = 0
  /\ LET r == insertBefore(heap, arrRef, idxArg, itemArg) IN
       /\ heap' = r.heap
       /\ retRef' = r.ref
  /\ UNCHANGED <<arrRef, idxArg, itemArg, arrAtCall>>
  /\ UNCHANGED <<tvars, cvars, pvars>>

InsertNext == InsertBefore

----------------------------------------------------------------------------
(* generatePdf *)

MaxNodes == 3  \* the subtree under htmlRef has at most MaxNodes elements

\* What an element is: "none" (no text, not an image), "latin" / "cjk"
\* (innerText within / beyond \u0000-ÿ), "svg" / "png" (an IMG whose
\* src has / has not the extension svg).
Contents == {"none", "latin", "cjk", "svg", "png"}

Children(d, n) == {c \in DOMAIN d : d[c].parent = n}

\* The trees of n elements: node 1 is the root and a node's parent precedes it.
RECURSIVE Trees(_)
Trees(n) ==
  IF n = 1
    THEN {<<[parent |-> 0, capture |-> c, content |-> x]>> : c \in BOOLEAN, x \in Contents}
    ELSE {Append(d, nd) :
            d \in Trees(n - 1),
            nd \in [parent : 1..(n - 1), capture : BOOLEAN, content : Contents]}

\* An element that has children is neither a text leaf nor an IMG.
Doms ==
  UNION {
    {d \in Trees(n) : \A k \in 1..n : Children(d, k) # {} => d[k].content = "none"}
    : n \in 1..MaxNodes}

\* Lines 192 and 195.
isText(d, n) == Children(d, n) = {} /\ d[n].content \in {"latin", "cjk"}
isNonUnicode(d, n) == isText(d, n) /\ d[n].content = "cjk"

\* Lines 197-265: what recurseNodes does for the node itself.
ownWork(d, n) ==
  IF d[n].capture THEN <<[node |-> n, kind |-> "html2canvas"]>>
  ELSE IF isNonUnicode(d, n) THEN <<[node |-> n, kind |-> "html2canvas"]>>
  ELSE IF isText(d, n) THEN <<[node |-> n, kind |-> "text"]>>
  ELSE IF d[n].content = "svg" THEN <<[node |-> n, kind |-> "svgImage"]>>
  ELSE IF d[n].content = "png" THEN <<[node |-> n, kind |-> "image"]>>
  ELSE <<>>

\* Lines 174-266: the work of the walk from node n, in the order it is done.
RECURSIVE recurseNodes(_, _)
RECURSIVE recurseFrom(_, _, _)
recurseFrom(d, n, c) ==
  IF c > Len(d) THEN <<>>
  ELSE (IF d[c].parent = n THEN recurseNodes(d, c) ELSE <<>>) \o recurseFrom(d, n, c + 1)

recurseNodes(d, n) ==
  (IF Children(d, n) # {} /\ ~d[n].capture THEN recurseFrom(d, n, 1) ELSE <<>>)
    \o ownWork(d, n)

Async(w) == w.kind \in {"html2canvas", "svgImage"}

\* Promise.all(promises), line 268: fulfilled once every promise is.
promiseAllAny(o) == o = <<>> \/ \E i \in DOMAIN o : o[i].promise = "fulfilled"
promiseAll(o) == \A i \in DOMAIN o : o[i].promise = "fulfilled"

PdfInit ==
  /\ dom \in Doms
  /\ saveOpt \in BOOLEAN
  /\ pcPdf = "idle"
  /\ ops = <<>>
  /\ docImages = {}
  /\ docSync = {}
  /\ joined = "pending"
  /\ saveCalls = 0
  /\ saveState = "none"
  /\ result = PendingP

\* The callback of require.ensure, lines 158-273, up to the return of line 268.
GeneratePdf ==
  /\ pcPdf = "idle"
  /\ pcPdf' = "walked"
  /\ LET work == recurseNodes(dom, 1)
         async == SelectSeq(work, Async)
     IN  /\ ops' = [i \in DOMAIN async |->
                      [node |-> async[i].node, kind |-> async[i].kind,
                       ext |-> "pending", promise |-> "pending"]]
         /\ docSync' = {work[i].node : i \in {j \in DOMAIN work : ~Async(work[j])}}
  /\ UNCHANGED <<dom, saveOpt, docImages, joined, saveCalls, saveState, result>>
  /\ UNCHANGED <<tvars, cvars, ivars>>

\* html2canvas(node) is fulfilled and the handler of lines 199-208 / 212-221 runs.
Html2canvasFulfils ==
  \E i \in DOMAIN ops :
    /\ ops[i].kind = "html2canvas"
    /\ ops[i].ext = "pending"
    /\ ops' = [ops EXCEPT ![i].ext = "ok", ![i].promise = "fulfilled"]
    /\ docImages' = docImages \cup {ops[i].node}
    /\ UNCHANGED <<dom, saveOpt, pcPdf, docSync, joined, saveCalls, saveState, result>>
    /\ UNCHANGED <<tvars, cvars, ivars>>

\* html2canvas(node) is rejected: so is its .then promise, so is
\* Promise.all, and so is the promise of line 268 when still pending.
Html2canvasRejects ==
  \E i \in DOMAIN ops :
    /\ ops[i].kind = "html2canvas"
    /\ ops[i].ext = "pending"
    /\ ops' = [ops EXCEPT ![i].ext = "error", ![i].promise = "rejected"]
    /\ joined' = IF joined = "pending" THEN "rejected" ELSE joined
    /\ result' = IF joined = "pending" THEN RejectedP(<<"html2canvas", ops[i].node>>) ELSE result
    /\ UNCHANGED <<dom, saveOpt, pcPdf, docImages, docSync, saveCalls, saveState>>
    /\ UNCHANGED <<tvars, cvars, ivars>>

\* The Image of lines 237-251 loads: img.onload, lines 238-249.
ImgOnload ==
  \E i \in DOMAIN ops :
    /\ ops[i].kind = "svgImage"
    /\ ops[i].ext = "pending"
    /\ ops' = [ops EXCEPT ![i].ext = "ok", ![i].promise = "fulfilled"]
    /\ docImages' = docImages \cup {ops[i].node}
    /\ UNCHANGED <<dom, saveOpt, pcPdf, docSync, joined, saveCalls, saveState, result>>
    /\ UNCHANGED <<tvars, cvars, ivars>>

\* The Image of lines 237-251 fails to load: no onerror is set and the
\* executor of line 230 takes no reject, so the promise is left as it is.
ImgFailsToLoad ==
  \E i \in DOMAIN ops :
    /\ ops[i].kind = "svgImage"
    /\ ops[i].ext = "pending"
    /\ ops' = [ops EXCEPT ![i].ext = "error"]
    /\ UNCHANGED <<dom, saveOpt, pcPdf, docImages, docSync, joined, saveCalls, saveState, result>>
    /\ UNCHANGED <<tvars, cvars, ivars>>

\* The handler of lines 268-273.
PromiseAllThen ==
  /\ pcPdf = "walked"
  /\ joined = "pending"
  /\ promiseAll(ops)
  /\ joined' = "fulfilled"
  /\ IF saveOpt
       THEN /\ saveCalls' = saveCalls + 1
            /\ saveState' = "pending"
            /\ UNCHANGED result
       ELSE /\ result' = FulfilledP("doc")
            /\ UNCHANGED <<saveCalls, saveState>>
  /\ UNCHANGED <<dom, saveOpt, pcPdf, ops, docImages, docSync>>
  /\ UNCHANGED <<tvars, cvars, ivars>>

\* The promise doc.save(filename, {returnPromise: true}) returned settles.
SaveFulfils ==
  /\ saveState = "pending"
  /\ saveState' = "fulfilled"
  /\ result' = FulfilledP("saved")
  /\ UNCHANGED <<dom, saveOpt, pcPdf, ops, docImages, docSync, joined, saveCalls>>
  /\ UNCHANGED <<tvars, cvars, ivars>>

SaveRejects ==
  /\ saveState = "pending"
  /\ saveState' = "rejected"
  /\ result' = RejectedP(<<"save">>)
  /\ UNCHANGED <<dom, saveOpt, pcPdf, ops, docImages, docSync, joined, saveCalls>>
  /\ UNCHANGED <<tvars, cvars, ivars>>

PdfNext ==
  \/ GeneratePdf
  \/ Html2canvasFulfils
  \/ Html2canvasRejects
  \/ ImgOnload
  \/ ImgFailsToLoad
  \/ PromiseAllThen
  \/ SaveFulfils
  \/ SaveRejects

----------------------------------------------------------------------------
(* C1: when the wrapper was called N >= 1 times with no tick, flush() or    *)
(* cancel() in between and the tick then fires, every invocation of cb by  *)
(* that tick receives the arguments of the most recent wrapper call.       *)
C1_TickUsesLatestArgs ==
  (ev.op = "tick" /\ ev.burst >= 1) =>
     \A i \in DOMAIN ev.invoked : ev.invoked[i] = ev.latest

(* C2: at most one frame request is pending at any time, and the tick that *)
(* follows a burst of N >= 1 wrapper calls invokes cb exactly once.        *)
C2_OneFrameOneInvocation ==
  /\ Len(rafQueue) <= 1
  /\ (ev.op = "tick" /\ ev.burst >= 1) => Len(ev.invoked) = 1

(* C3: once the wrapper has been called, flush() invokes cb exactly once   *)
(* with the arguments of the most recent wrapper call, and no frame        *)
(* request that was pending before flush() is pending after it.            *)
C3_FlushRunsLatestAndCancels ==
  (ev.op = "flush" /\ ev.latest # 0) =>
     /\ ev.invoked = <<ev.latest>>
     /\ Pending(rafQueue) \cap ev.had = {}

(* C10: no wrapper call is silently dropped: with cancel() never called,   *)
(* a wrapper call that no invocation of cb has followed yet has a frame    *)
(* request pending, so that the next display tick invokes cb after it.     *)
C10_UnservedCallHasFrame == unserved => rafQueue # <<>>

(* C10, as a property of behaviours under LiveThrottleSpec (ticks keep     *)
(* firing): every wrapper call is eventually followed by an invocation of  *)
(* cb that starts after it.                                                *)
C10_EveryCallServed == unserved ~> ~unserved

(* C4: promiseChunk runs one group at a time: at most one callback          *)
(* operation is in flight, and callback is not invoked on group k+1 before *)
(* the promise callback returned for group k has been fulfilled.           *)
C4_OneGroupAtATime ==
  /\ Cardinality({k \in DOMAIN cbState : cbState[k] = "running"}) <= 1
  /\ \A k \in DOMAIN cbState :
       (k > 1 /\ cbState[k] # "idle") => cbState[k - 1] = "fulfilled"

C4_Witness ==
  /\ Len(cbState) >= 2
  /\ cbState[1] = "fulfilled"
  /\ cbState[2] = "running"

(* C5: when the callback for group k fails, callback is never invoked for  *)
(* a later group, promiseChunk's promise is never fulfilled, and once the  *)
(* chain has run dry it is rejected with that same failure.                *)
C5_FailurePropagates ==
  \A k \in DOMAIN cbState :
    cbState[k] \in {"rejected", "threw"} =>
      /\ \A j \in DOMAIN cbState : j > k => cbState[j] = "idle"
      /\ Returned.st # "fulfilled"
      /\ Returned.st = "rejected" => Returned.val = cbRet[k]
      /\ (~ENABLED ChunkNext) => Returned.st = "rejected"

C5_Witness ==
  /\ Len(cbState) >= 3
  /\ cbState[1] = "fulfilled"
  /\ cbState[2] = "rejected"
  /\ Returned = RejectedP(cbRet[2])

RECURSIVE ConcatUpTo(_, _)
ConcatUpTo(seqs, k) ==
  IF k = 0 THEN <<>> ELSE ConcatUpTo(seqs, k - 1) \o seqs[k]

(* C6: for chunkSize >= 1, once promiseChunk's promise is fulfilled,       *)
(* callback was invoked ceil(len/chunkSize) times, the k-th time with the  *)
(* k-th consecutive slice of at most chunkSize items, and the value is the *)
(* concatenation of the groups' results in group order; for an empty list  *)
(* the value is [] and callback was not invoked.                           *)
C6_SlicesAndConcatenation ==
  /\ (pcChunk = "called" /\ chunkSize >= 1 /\ Returned.st = "fulfilled") =>
       LET n == Len(things)
           g == (n + chunkSize - 1) \div chunkSize
       IN  /\ Len(invokeLog) = g
           /\ \A k \in 1..g :
                invokeLog[k] =
                  [i \in 1..Min(chunkSize, n - (k - 1) * chunkSize) |->
                     things[(k - 1) * chunkSize + i]]
           /\ ConcatUpTo(invokeLog, g) = things
           /\ Returned.val = ConcatUpTo(cbRet, g)
  /\ (pcChunk = "called" /\ things = <<>>) =>
       (Returned = FulfilledP(<<>>) /\ invokeLog = <<>>)

C6_Witness ==
  /\ pcChunk = "called"
  /\ Len(things) = 3
  /\ chunkSize = 2
  /\ Returned.st = "fulfilled"
  /\ Len(invokeLog) = 2
  /\ cbRet[1] # <<>>
  /\ cbRet[2] # <<>>
  /\ cbRet[1] # cbRet[2]

(* C7: for an array s of JSON-representable values and 0 <= i <= len(s),   *)
(* insertBefore(s, i, x) returns an array of length len(s)+1 with x at     *)
(* position i and the elements of s around it in their order, and s is     *)
(* unchanged after the call.                                               *)
C7_InsertBefore ==
  (/\ retRef # 0
   /\ idxArg >= 0
   /\ idxArg <= Len(arrAtCall)
   /\ \A i \in DOMAIN arrAtCall : arrAtCall[i] \in JsonValues) =>
     LET r == heap[retRef]
         s == arrAtCall
     IN  /\ Len(r) = Len(s) + 1
         /\ r[idxArg + 1] = itemArg
         /\ \A i \in 1..idxArg : r[i] = s[i]
         /\ \A i \in (idxArg + 1)..Len(s) : r[i + 1] = s[i]
         /\ heap[arrRef] = s

C7_Witness ==
  /\ retRef # 0
  /\ Len(arrAtCall) = 2
  /\ idxArg = 1
  /\ arrAtCall[1] # arrAtCall[2]
  /\ \A i \in DOMAIN arrAtCall : arrAtCall[i] \in JsonValues
  /\ itemArg = "undefined"

(* C8: if a capture or image load started during the walk has failed, the  *)
(* promise generatePdf returned is rejected: once nothing more can happen  *)
(* it is neither pending nor fulfilled.                                    *)
C8_FailureRejects ==
  ((\E i \in DOMAIN ops : ops[i].ext = "error") /\ ~ENABLED PdfNext) =>
     result.st = "rejected"

AllCaptured == \A i \in DOMAIN ops : ops[i].ext = "ok" /\ ops[i].node \in docImages

(* C9: generatePdf's promise is fulfilled only after every capture started *)
(* during the walk has completed and added its image to doc; with save set *)
(* doc.save is called exactly once and only after all of them completed;   *)
(* without it doc.save is never called and the value is the document.      *)
C9_FulfilsAfterAllCaptures ==
  /\ result.st = "fulfilled" => (pcPdf = "walked" /\ AllCaptured)
  /\ saveCalls <= 1
  /\ saveCalls = 1 => (saveOpt /\ AllCaptured)
  /\ (saveOpt /\ result.st = "fulfilled") => saveCalls = 1
  /\ (saveOpt /\ pcPdf = "walked" /\ AllCaptured /\ ~ENABLED PdfNext) => saveCalls = 1
  /\ ~saveOpt => (saveCalls = 0 /\ (result.st = "fulfilled" => result.val = "doc"))

C9_Witness ==
  /\ result.st = "fulfilled"
  /\ saveOpt
  /\ saveCalls = 1
  /\ Len(ops) >= 2
  /\ \E i, j \in DOMAIN ops : ops[i].kind = "html2canvas" /\ ops[j].kind = "svgImage"

----------------------------------------------------------------------------
(* Specifications: one per function, the other functions' state at rest. *)

ChunkRest ==
  /\ things = <<>>
  /\ chunkSize = 0
  /\ pcChunk = "idle"
  /\ chunks = <<>>
  /\ chain = <<>>
  /\ cbState = <<>>
  /\ cbRet = <<>>
  /\ invokeLog = <<>>

InsertRest ==
  /\ heap = (1 :> <<>>)
  /\ arrRef = 1
  /\ idxArg = 0
  /\ itemArg = "null"
  /\ retRef = 0
  /\ arrAtCall = <<>>

PdfRest ==
  /\ dom = <<[parent |-> 0, capture |-> FALSE, content |-> "none"]>>
  /\ saveOpt = FALSE
  /\ pcPdf = "idle"
  /\ ops = <<>>
  /\ docImages = {}
  /\ docSync = {}
  /\ joined = "pending"
  /\ saveCalls = 0
  /\ saveState = "none"
  /\ result = PendingP

ThrottleSpecInit == ThrottleInit /\ ChunkRest /\ InsertRest /\ PdfRest

ThrottleSpec == ThrottleSpecInit /\ [][ThrottleNext]_vars

LiveThrottleSpec ==
  ThrottleSpecInit /\ [][LiveThrottleNext]_vars /\ WF_vars(Tick)

ChunkSpecInit == ChunkInit /\ ThrottleInit /\ InsertRest /\ PdfRest

ChunkSpec == ChunkSpecInit /\ [][ChunkNext]_vars

InsertSpecInit == InsertInit /\ ThrottleInit /\ ChunkRest /\ PdfRest

InsertSpec == InsertSpecInit /\ [][InsertNext]_vars

PdfSpecInit == PdfInit /\ ThrottleInit /\ ChunkRest /\ InsertRest

PdfSpec == PdfSpecInit /\ [][PdfNext]_vars

====
